---- MODULE Spec2Model ----
(***************************************************************************)
(* Model of dqm_client.molecule.Molecule: the three constructors (psi4     *)
(* text, numpy table, json record), orient_molecule, get_fragment,         *)
(* compare, to_json and get_hash.                                          *)
(*                                                                         *)
(* Numbers.  Charges and masses are the integers the floats hold.  A       *)
(* geometry is an exact rational matrix [den, rows]: entry rows[i][k]      *)
(* stands for rows[i][k] / (den * Bohr2AngstromsMilli) bohr, so that both  *)
(* unit conversions of the parser are integer factors.  Python indices     *)
(* are kept 0-based inside the values (fragments, real/ghost selections);  *)
(* TLA+ sequences are 1-based, hence the "+ 1" when indexing.              *)
(***************************************************************************)
EXTENDS Integers, Sequences, FiniteSets, TLC

VARIABLES text, pc, mol, ret, call, heap, lapack

vars == <<text, pc, mol, ret, call, heap, lapack>>

-----------------------------------------------------------------------------
(* Bounds of the model *)

\* lines of a specification text
MaxLines == 4

\* lines of the texts whose entity the client goes on to use in a call
MaxCallLines == 3

-----------------------------------------------------------------------------
(* Program constants *)

GEOMETRY_NOISE == 8
MASS_NOISE == 6
CHARGE_NOISE == 4

\* physconst["bohr2angstroms"] = 0.52917720859, kept to three digits: 529/1000.
\* Geometry numerators count 1/529 bohr, so the parser's two factors are
\*   unit_conversion = 1 / bohr2angstroms  (angstrom input)  -> 1000
\*   unit_conversion = 1.0                 (bohr input)      -> 529
Bohr2AngstromsMilli == 529
UnitConversionAngstrom == 1000
UnitConversionBohr == Bohr2AngstromsMilli

-----------------------------------------------------------------------------
(* Small helpers on sequences and integers *)

Abs(x) == IF x < 0 THEN -x ELSE x

RECURSIVE GCD(_, _)
GCD(a, b) == IF b = 0 THEN a ELSE GCD(b, a % b)

RECURSIVE SumSeq(_)
SumSeq(s) == IF s = <<>> THEN 0 ELSE Head(s) + SumSeq(Tail(s))

Range(s) == {s[i] : i \in DOMAIN s}

\* Python range(a, b) as a sequence
PyRange(a, b) == [i \in 1..(IF b > a THEN b - a ELSE 0) |-> a + i - 1]

Last(s) == s[Len(s)]

\* F applied to the value of v, with v evaluated once
Bind(v, F(_)) == CHOOSE r \in { F(x) : x \in {v} } : TRUE

-----------------------------------------------------------------------------
(* Constants table (dqm_client.constants): element symbol -> atomic number *)
(* and standard mass, keyed by upper-case symbol.                          *)

el2z == [s \in {"H", "HE"} |-> IF s = "H" THEN 1 ELSE 2]

el2masses == [s \in {"H", "HE"} |-> IF s = "H" THEN 1 ELSE 4]

\* str.upper() on the atom tokens the model draws
Upper(tok) == CASE tok = "H" -> "H"
                [] tok = "he" -> "HE"
                [] tok = "Xx" -> "XX"
                [] OTHER -> tok

-----------------------------------------------------------------------------
(* Specification text: a sequence of lines, each already classified by the *)
(* regular expression it matches first in the parser's if/elif chain.      *)
(*   kind   "blank" | "bohr" | "ang" | "cgmp" | "frag" | "atom" | "other"  *)
(*   c, m   the two integers of a charge/multiplicity line                 *)
(*   tok    element token of an atom line, gh its ghost marker             *)
(*          ("" | "@" | "Gh("), mass its "@<mass>" suffix (0 = none)       *)
(*   nf     number of entries of the atom line after splitting             *)
(*   xyz    the three coordinates of the atom line                         *)

Ln(kind, c, m, tok, gh, mass, nf) ==
    [kind |-> kind, c |-> c, m |-> m, tok |-> tok, gh |-> gh, mass |-> mass,
     nf |-> nf, xyz |-> <<0, 0, 0>>]

\* lines the parser accepts (a comment or blank line is skipped the way an
\* angstrom directive is)
OkLines ==
    { Ln("bohr", 0, 0, "", "", 0, 0),
      Ln("ang", 0, 0, "", "", 0, 0),
      Ln("cgmp", 1, 2, "", "", 0, 0),
      Ln("cgmp", -1, 3, "", "", 0, 0),
      Ln("frag", 0, 0, "", "", 0, 0),
      Ln("atom", 0, 0, "H", "", 0, 4),
      Ln("atom", 0, 0, "he", "", 3, 4),
      Ln("atom", 0, 0, "he", "@", 0, 4),
      Ln("atom", 0, 0, "H", "Gh(", 3, 4) }

\* lines that make it raise: an unknown element, an atom line of three
\* entries, a line no expression matches
BadLines ==
    { Ln("atom", 0, 0, "Xx", "", 0, 4),
      Ln("atom", 0, 0, "H", "", 0, 3),
      Ln("other", 0, 0, "", "", 0, 0) }

LineKinds == OkLines \cup BadLines

\* The axes the drawn structures lie along (all atoms of a text on one axis)
Axes == {3}

\* The atom written on line i sits at coordinate i of the chosen axis
Place(kinds, axis) ==
    [i \in DOMAIN kinds |->
        IF kinds[i].kind = "atom"
        THEN [kinds[i] EXCEPT !.xyz = [k \in 1..3 |-> IF k = axis THEN i ELSE 0]]
        ELSE kinds[i]]

\* Four equal atoms on the corners of a square in the plane of the first two
\* axes, in the order the text lists them
SquareCorners == << <<1, 1, 0>>, <<-1, 1, 0>>, <<-1, -1, 0>>, <<1, -1, 0>> >>

AtomKinds == {l \in OkLines : l.kind = "atom"}

Square(atomLine) == [i \in 1..4 |-> [atomLine EXCEPT !.xyz = SquareCorners[i]]]

-----------------------------------------------------------------------------
(* The entity.  geometry is a reference into the heap of arrays (0 = None) *)

\* Molecule.__init__: the attributes as laid out before any parsing
BlankMolecule ==
    [symbols |-> <<>>, geometry |-> 0, masses |-> <<>>, charge |-> 0,
     multiplicity |-> 1, real |-> <<>>, fragments |-> <<>>,
     fragment_charges |-> <<>>, fragment_multiplicities |-> <<>>,
     custom_masses |-> FALSE]

\* value of a geometry array before any array is bound
NoArray == [den |-> 1, rows |-> <<>>]

-----------------------------------------------------------------------------
(* _molecule_from_string_psi4, first loop: classify the lines, collect the *)
(* charge/multiplicity pairs and keep the geometry lines.                  *)

Pass1Init ==
    [charge |-> 0, multiplicity |-> 1, fragment_charges |-> <<>>,
     fragment_multiplicities |-> <<>>, ifrag |-> 0, glines |-> <<>>,
     unit_conversion |-> UnitConversionAngstrom, err |-> FALSE]

\* "try: self.fragment_charges[ifrag] except: append the defaults"
DefaultCgmp(p) ==
    IF p.ifrag < Len(p.fragment_charges)
    THEN p
    ELSE [p EXCEPT !.fragment_charges = Append(@, 0),
                   !.fragment_multiplicities = Append(@, 1)]

\* (mutation) the pair sets the molecule-level values in every block
CgmpLineAnyBlock(line, p) ==
    [p EXCEPT !.charge = line.c, !.multiplicity = line.m,
              !.fragment_charges = Append(@, line.c),
              !.fragment_multiplicities = Append(@, line.m)]

\* molecule-level charge and multiplicity are set by a pair met while ifrag = 0
CgmpLine(line, p) ==
    LET q == IF p.ifrag = 0
             THEN [p EXCEPT !.charge = line.c, !.multiplicity = line.m]
             ELSE p
    IN [q EXCEPT !.fragment_charges = Append(@, line.c),
                 !.fragment_multiplicities = Append(@, line.m)]

FragLine(line, p) ==
    LET q == DefaultCgmp(p)
    IN [q EXCEPT !.ifrag = @ + 1, !.glines = Append(@, line)]

\* (mutation) an angstrom directive assigns the angstrom factor
UnitsLineLastWins(line, p) ==
    [p EXCEPT !.unit_conversion = IF line.kind = "bohr" THEN UnitConversionBohr
                                  ELSE UnitConversionAngstrom]

\* a units line: only the bohr directive assigns unit_conversion
UnitsLine(line, p) ==
    IF line.kind = "bohr"
    THEN [p EXCEPT !.unit_conversion = UnitConversionBohr]
    ELSE p

Pass1Line(line, p) ==
    CASE line.kind = "blank" -> p
      [] line.kind \in {"bohr", "ang"} -> UnitsLine(line, p)
      [] line.kind = "cgmp" -> CgmpLine(line, p)
      [] line.kind = "frag" -> FragLine(line, p)
      [] line.kind = "atom" -> [p EXCEPT !.glines = Append(@, line)]
      [] OTHER -> [p EXCEPT !.err = TRUE]

RECURSIVE Pass1Loop(_, _, _)
Pass1Loop(lines, i, p) ==
    IF i > Len(lines) \/ p.err
    THEN p
    ELSE Bind(Pass1Line(lines[i], p), LAMBDA n : Pass1Loop(lines, i + 1, n))

\* the loop, then "catch last default fragment cgmp"
Pass1(lines) ==
    Bind(Pass1Loop(lines, 1, Pass1Init),
         LAMBDA p : IF p.err THEN p ELSE DefaultCgmp(p))

-----------------------------------------------------------------------------
(* _molecule_from_string_psi4, second loop over the geometry lines         *)

Pass2Init ==
    [symbols |-> <<>>, real |-> <<>>, fragments |-> <<>>, geometry |-> <<>>,
     tmpMass |-> <<>>, custom_masses |-> FALSE, tempfrag |-> <<>>,
     iatom |-> 0, ifrag |-> 0, err |-> FALSE]

\* fragments.append(range(tempfrag[0], tempfrag[-1] + 1)) and the matching
\* real.extend([True ...]); tempfrag[0] raises on an empty fragment
CloseFragment(q) ==
    IF q.tempfrag = <<>>
    THEN [q EXCEPT !.err = TRUE]
    ELSE LET r == PyRange(Head(q.tempfrag), Last(q.tempfrag) + 1)
         IN [q EXCEPT !.fragments = Append(@, r),
                      !.real = @ \o [i \in DOMAIN r |-> TRUE]]

\* the flag the parser derives from the ghost marker of the token
GhostAtom(line) == line.gh # ""

AtomLine(line, q) ==
    LET atomSym == Upper(line.tok)
        ghostAtom == GhostAtom(line)
        atomMass == IF line.mass = 0 THEN el2masses[atomSym] ELSE line.mass
    IN IF atomSym \notin DOMAIN el2z
       THEN [q EXCEPT !.err = TRUE]
       ELSE IF line.nf # 4
       THEN [q EXCEPT !.err = TRUE]
       ELSE [q EXCEPT !.symbols = Append(@, atomSym),
                      !.tmpMass = Append(@, atomMass),
                      !.custom_masses = @ \/ line.mass # 0,
                      !.tempfrag = Append(@, q.iatom),
                      !.geometry = Append(@, line.xyz),
                      !.iatom = @ + 1]

Pass2Line(line, q) ==
    IF line.kind = "frag"
    THEN [CloseFragment(q) EXCEPT !.ifrag = @ + 1, !.tempfrag = <<>>]
    ELSE AtomLine(line, q)

RECURSIVE Pass2Loop(_, _, _)
Pass2Loop(glines, i, q) ==
    IF i > Len(glines) \/ q.err
    THEN q
    ELSE Bind(Pass2Line(glines[i], q), LAMBDA n : Pass2Loop(glines, i + 1, n))

Pass2(glines) ==
    Bind(Pass2Loop(glines, 1, Pass2Init),
         LAMBDA q : IF q.err THEN q ELSE CloseFragment(q))

\* np.array(self.geometry) * unit_conversion
ScaleGeometry(rows, unit_conversion) ==
    [den |-> 1,
     rows |-> [i \in DOMAIN rows |-> [k \in 1..3 |-> rows[i][k] * unit_conversion]]]

\* The entity the two loops leave, before orientation: [err, ent, geom]
ParsedMolecule(p, q) ==
       IF p.err \/ q.err
       THEN [err |-> TRUE, ent |-> BlankMolecule, geom |-> NoArray]
       ELSE [err |-> FALSE,
             ent |-> [BlankMolecule EXCEPT
                        !.symbols = q.symbols,
                        !.masses = IF q.custom_masses THEN q.tmpMass ELSE <<>>,
                        !.custom_masses = q.custom_masses,
                        !.real = q.real,
                        !.fragments = q.fragments,
                        !.charge = p.charge,
                        !.multiplicity = p.multiplicity,
                        !.fragment_charges = p.fragment_charges,
                        !.fragment_multiplicities = p.fragment_multiplicities],
             geom |-> ScaleGeometry(q.geometry, p.unit_conversion)]

MoleculeFromStringPsi4(lines) ==
    Bind(Pass1(lines),
         LAMBDA p : Bind(Pass2(p.glines), LAMBDA q : ParsedMolecule(p, q)))

-----------------------------------------------------------------------------
(* Arithmetic on geometries (exact rationals with a common denominator)    *)

RECURSIVE GCDRows(_, _)
GCDRows(rows, g) ==
    IF rows = <<>> THEN g
    ELSE GCDRows(Tail(rows),
                 GCD(GCD(GCD(g, Abs(Head(rows)[1])), Abs(Head(rows)[2])),
                     Abs(Head(rows)[3])))

\* the one representation of a value: lowest terms
Norm(g) ==
    LET d == GCDRows(g.rows, g.den)
    IN [den |-> g.den \div d,
        rows |-> [i \in DOMAIN g.rows |-> [k \in 1..3 |-> g.rows[i][k] \div d]]]

\* sum_i weight[i] * f(row i), for an integer-valued f of a row
WSum(rows, weight, F(_)) ==
    SumSeq([i \in DOMAIN rows |-> weight[i] * F(rows[i])])

-----------------------------------------------------------------------------
(* orient_molecule                                                         *)

\* the weights: the element masses unless _custom_masses is set
NpMass(ent) ==
    IF ent.custom_masses = FALSE
    THEN [i \in DOMAIN ent.symbols |-> el2masses[ent.symbols[i]]]
    ELSE ent.masses

\* np.average(geometry, axis=0, weights=np_mass) raises when the weights do
\* not match the rows or sum to zero (and on a geometry of None)
AverageRaises(g, weight) ==
    \/ Len(weight) # Len(g.rows)
    \/ SumSeq(weight) = 0

\* self.geometry -= np.average(self.geometry, axis=0, weights=np_mass)
CenterOnMass(g, weight) ==
    LET W == SumSeq(weight)
        com == [k \in 1..3 |-> WSum(g.rows, weight, LAMBDA r : r[k])]
    IN Norm([den |-> g.den * W,
             rows |-> [i \in DOMAIN g.rows |->
                        [k \in 1..3 |-> g.rows[i][k] * W - com[k]]]])

\* the entries over their greatest common divisor (a positive scaling)
Primitive(rows) ==
    LET d == GCDRows(rows, 0)
    IN IF d = 0 THEN rows
       ELSE [i \in DOMAIN rows |-> [k \in 1..3 |-> rows[i][k] \div d]]

\* _inertial_tensor, up to a positive factor (which changes neither the
\* eigenvectors nor the order of the eigenvalues)
InertialTensor(g, weight) ==
    LET S(F(_)) == WSum(Primitive(g.rows), weight, F)
        xy == -1 * S(LAMBDA r : r[1] * r[2])
        xz == -1 * S(LAMBDA r : r[1] * r[3])
        yz == -1 * S(LAMBDA r : r[2] * r[3])
    IN << << S(LAMBDA r : r[2] * r[2] + r[3] * r[3]), xy, xz >>,
          << xy, S(LAMBDA r : r[1] * r[1] + r[3] * r[3]), yz >>,
          << xz, yz, S(LAMBDA r : r[1] * r[1] + r[2] * r[2]) >> >>

IsDiagonal(t) == \A i, j \in 1..3 : i # j => t[i][j] = 0

\* np.linalg.eigh of a diagonal tensor: the eigenvalues are the diagonal in
\* ascending order and the eigenvectors are signed unit vectors, of whatever
\* sign LAPACK returns.  Equal eigenvalues come in the order the build's
\* LAPACK returns them, the same on every call: lapack = "stable" keeps them
\* in index order, "reversed" in the opposite order.  (The unit vectors are
\* what LAPACK returns for a tensor that is exactly diagonal.)
\* evecs[k] = <<axis, sign>>: column k of the eigenvector matrix.
AxisOrders ==
    { <<1, 2, 3>>, <<1, 3, 2>>, <<2, 1, 3>>, <<2, 3, 1>>, <<3, 1, 2>>, <<3, 2, 1>> }

Ascending(t, q) ==
    \A i \in 1..2 :
        \/ t[q[i]][q[i]] < t[q[i + 1]][q[i + 1]]
        \/ /\ t[q[i]][q[i]] = t[q[i + 1]][q[i + 1]]
           /\ IF lapack = "stable" THEN q[i] < q[i + 1] ELSE q[i] > q[i + 1]

Eigh(t) ==
    { [k \in 1..3 |-> <<p[k], sg[k]>>] :
        p \in { q \in AxisOrders : Ascending(t, q) },
        sg \in [1..3 -> {-1, 1}] }

\* np.dot(self.geometry, evecs)
Dot(g, evecs) ==
    [den |-> g.den,
     rows |-> [i \in DOMAIN g.rows |->
                [k \in 1..3 |-> evecs[k][2] * g.rows[i][evecs[k][1]]]]]

\* abs(val) < 10 ** (-GEOMETRY_NOISE), val = n / (den * 529) bohr
BelowNoise(n, den) ==
    Abs(n) <= (den * Bohr2AngstromsMilli - 1) \div (10 ^ GEOMETRY_NOISE)

NegateColumn(rows, x) ==
    [i \in DOMAIN rows |-> [k \in 1..3 |-> IF k = x THEN -1 * rows[i][k] ELSE rows[i][k]]]

\* (mutation) an axis already fixed is examined again at every atom
PhaseAxisEveryAtom(st, den, num, x) ==
    LET val == st.rows[num][x]
    IN IF BelowNoise(val, den)
       THEN st
       ELSE [rows |-> IF val < 0 THEN NegateColumn(st.rows, x) ELSE st.rows,
             phase_check |-> [st.phase_check EXCEPT ![x] = TRUE]]

\* the body of "for x in range(3)" for atom num and axis x:
\* st = [rows, phase_check]
PhaseAxis(st, den, num, x) ==
    LET val == st.rows[num][x]
    IN IF st.phase_check[x] \/ BelowNoise(val, den)
       THEN st
       ELSE [rows |-> IF val < 0 THEN NegateColumn(st.rows, x) ELSE st.rows,
             phase_check |-> [st.phase_check EXCEPT ![x] = TRUE]]

RECURSIVE PhaseAxes(_, _, _, _)
PhaseAxes(st, den, num, x) ==
    IF x > 3 THEN st
    ELSE Bind(PhaseAxis(st, den, num, x), LAMBDA n : PhaseAxes(n, den, num, x + 1))

RECURSIVE PhaseAtoms(_, _, _)
PhaseAtoms(st, den, num) ==
    IF num > Len(st.rows) \/ (\A x \in 1..3 : st.phase_check[x])
    THEN st
    ELSE Bind(PhaseAxes(st, den, num, 1), LAMBDA n : PhaseAtoms(n, den, num + 1))

\* the sign-fixing loop of orient_molecule
FixPhases(g) ==
    [den |-> g.den,
     rows |-> PhaseAtoms([rows |-> g.rows, phase_check |-> <<FALSE, FALSE, FALSE>>],
                         g.den, 1).rows]

\* orient_molecule on entity ent over heap h, one result per eigh outcome:
\* [err, ent, heap].  "-=" writes the array the entity holds; np.dot binds
\* a new array, which the sign loop then writes.
OrientMolecule(ent, h) ==
    LET np_mass == NpMass(ent)
        old == IF ent.geometry = 0 THEN NoArray ELSE h[ent.geometry]
    IN IF ent.geometry = 0 \/ AverageRaises(old, np_mass)
       THEN { [err |-> TRUE, ent |-> ent, heap |-> h] }
       ELSE Bind(CenterOnMass(old, np_mass), LAMBDA centered :
              { [err |-> FALSE,
                 ent |-> [ent EXCEPT !.geometry = Len(h) + 1],
                 heap |-> Append([h EXCEPT ![ent.geometry] = centered],
                                 FixPhases(Dot(centered, evecs)))]
                : evecs \in Eigh(InertialTensor(centered, np_mass)) })

-----------------------------------------------------------------------------
(* to_json and get_hash                                                    *)

\* hash_helpers.float_prep(data, digits): round to the given decimals.  The
\* charges and masses of the model are whole numbers, which rounding keeps;
\* a geometry is emitted as its exact value in lowest terms.
FloatPrep(data, digits) == data

FloatPrepGeometry(g, digits) == Norm(g)

\* to_json: the record of fields.valid_fields["molecule"].  A field that
\* to_json leaves out (an empty sequence, or masses without _custom_masses)
\* is the empty sequence here, which to_json never emits.
ToJson(ent, h) ==
    [symbols |-> ent.symbols,
     masses |-> IF ent.custom_masses = FALSE THEN <<>>
                ELSE FloatPrep(ent.masses, MASS_NOISE),
     real |-> ent.real,
     fragments |-> ent.fragments,
     fragment_charges |-> FloatPrep(ent.fragment_charges, CHARGE_NOISE),
     fragment_multiplicities |-> ent.fragment_multiplicities,
     charge |-> FloatPrep(ent.charge, CHARGE_NOISE),
     multiplicity |-> ent.multiplicity,
     geometry |-> IF ent.geometry = 0 THEN NoArray
                  ELSE FloatPrepGeometry(h[ent.geometry], GEOMETRY_NOISE)]

\* schema.get_hash_fields("molecule"), in order
HashFields ==
    << "symbols", "masses", "real", "fragments", "fragment_charges",
       "fragment_multiplicities", "charge", "multiplicity", "geometry" >>

\* get_hash: the digest of the concatenated dumps of the hash fields present,
\* modelled by the concatenated content itself (a collision-free digest)
GetHash(ent, h) ==
    LET tmp_json == ToJson(ent, h)
    IN [i \in DOMAIN HashFields |-> [field |-> HashFields[i], dump |-> tmp_json[HashFields[i]]]]

-----------------------------------------------------------------------------
(* compare                                                                 *)

\* np.allclose(a, b, atol) on whole numbers: |a - b| <= atol + 1e-5 * |b|
AllCloseInt(a, b, atol) == (Abs(a - b) - atol) * 100000 <= Abs(b)

AllCloseSeq(a, b, atol) ==
    /\ Len(a) = Len(b)
    /\ \A i \in DOMAIN a : AllCloseInt(a[i], b[i], atol)

\* the same on two geometry entries na/(da*529) and nb/(db*529) bohr
AllCloseEntry(na, da, nb, db, atol) ==
    Abs(na * db - nb * da) - atol * Bohr2AngstromsMilli * da * db
        <= (Abs(nb) * da) \div 100000

AllCloseGeometry(a, b, atol) ==
    /\ Len(a.rows) = Len(b.rows)
    /\ \A i \in DOMAIN a.rows : \A k \in 1..3 :
           AllCloseEntry(a.rows[i][k], a.den, b.rows[i][k], b.den, atol)

GeometryOf(ent, h) == IF ent.geometry = 0 THEN NoArray ELSE h[ent.geometry]

\* self.compare(other, bench): bench is compared with other, the masses only
\* when self or other carries custom masses
Compare(self, other, bench, h) ==
    /\ bench.symbols = other.symbols
    /\ (self.custom_masses \/ other.custom_masses)
          => AllCloseSeq(bench.masses, other.masses, MASS_NOISE)
    /\ bench.real = other.real
    /\ bench.fragments = other.fragments
    /\ AllCloseSeq(bench.fragment_charges, other.fragment_charges, CHARGE_NOISE)
    /\ bench.fragment_multiplicities = other.fragment_multiplicities
    /\ AllCloseInt(bench.charge, other.charge, CHARGE_NOISE)
    /\ bench.multiplicity = other.multiplicity
    /\ AllCloseGeometry(GeometryOf(bench, h), GeometryOf(other, h), GEOMETRY_NOISE)

-----------------------------------------------------------------------------
(* _molecule_from_json and _molecule_from_numpy                            *)

\* setattr(self, field, data) for every field of the record; the geometry
\* becomes a new array.  _custom_masses is no field of the record.
MoleculeFromJson(json_data) ==
    [err |-> FALSE,
     ent |-> [BlankMolecule EXCEPT
                !.symbols = json_data.symbols,
                !.masses = json_data.masses,
                !.real = json_data.real,
                !.fragments = json_data.fragments,
                !.fragment_charges = json_data.fragment_charges,
                !.fragment_multiplicities = json_data.fragment_multiplicities,
                !.charge = json_data.charge,
                !.multiplicity = json_data.multiplicity],
     geom |-> json_data.geometry]

\* "if len(frags) and (frags[-1] != arr.shape[0]): frags.append(arr.shape[0])"
CloseFrags(frags, n) ==
    IF Len(frags) > 0 /\ Last(frags) # n THEN Append(frags, n) ELSE frags

\* the loop over frags: fragment i is range(start, fsplit)
NumpyFragments(frags) ==
    [i \in DOMAIN frags |-> PyRange(IF i = 1 THEN 0 ELSE frags[i - 1], frags[i])]

\* arr = [ncols, rows], each row (Z, x, y, z); units "bohr" or "angstrom"
MoleculeFromNumpy(arr, frags, units) ==
    IF arr.ncols # 4 \/ units \notin {"bohr", "angstrom"}
    THEN [err |-> TRUE, ent |-> BlankMolecule, geom |-> NoArray]
    ELSE LET const == IF units = "bohr" THEN UnitConversionBohr
                      ELSE UnitConversionAngstrom
             fr == NumpyFragments(CloseFrags(frags, Len(arr.rows)))
         IN [err |-> FALSE,
             ent |-> [BlankMolecule EXCEPT
                        !.real = [i \in DOMAIN arr.rows |-> TRUE],
                        !.fragments = fr,
                        !.fragment_charges = [i \in DOMAIN fr |-> 0],
                        !.fragment_multiplicities = [i \in DOMAIN fr |-> 1]],
             geom |-> ScaleGeometry([i \in DOMAIN arr.rows |-> Tail(arr.rows[i])], const)]

-----------------------------------------------------------------------------
(* get_fragment                                                            *)

\* An argument of get_fragment: an integer, a list of fragment positions,
\* or None
ArgInt(n) == [tag |-> "int", n |-> n, l |-> <<>>]
ArgList(l) == [tag |-> "list", n |-> 0, l |-> l]
ArgNone == [tag |-> "none", n |-> 0, l |-> <<>>]

\* "if isinstance(real, int): real = [real]" and the same for ghost, with
\* "elif ghost is None: ghost = []"
AsList(arg) ==
    CASE arg.tag = "int" -> <<arg.n>>
      [] arg.tag = "none" -> <<>>
      [] OTHER -> arg.l

\* (mutation) the overlap test never fires
OverlapIgnored(real, ghost) == FALSE

\* len(set(real) & set(ghost)) # 0
Overlap(real, ghost) == Range(real) \cap Range(ghost) # {}

\* (mutation) the next fragment starts where the last one started
FragStartStuck(frag_start, frag_size) == frag_start

\* "frag_start += frag_size"
NextFragStart(frag_start, frag_size) == frag_start + frag_size

\* One pass of either loop body for fragment position frag: r is
\* [ent, blocks, frag_start, err]; isReal tells the loop (real or ghost).
\* An index outside a list raises.
FragmentBlock(self, src, frag, isReal, r) ==
    IF r.err THEN r
    ELSE IF \/ frag >= Len(self.fragments)
            \/ frag >= Len(self.fragment_charges)
            \/ frag >= Len(self.fragment_multiplicities)
            \/ \E idx \in Range(self.fragments[frag + 1]) :
                  \/ idx >= Len(src.rows)
                  \/ idx >= Len(self.symbols)
                  \/ idx >= Len(self.masses)
    THEN [r EXCEPT !.err = TRUE]
    ELSE LET atoms == self.fragments[frag + 1]
             frag_size == Len(atoms)
         IN [r EXCEPT
               !.blocks = @ \o [i \in DOMAIN atoms |-> src.rows[atoms[i] + 1]],
               !.ent = [@ EXCEPT
                   !.symbols = @ \o [i \in DOMAIN atoms |-> self.symbols[atoms[i] + 1]],
                   !.masses = @ \o [i \in DOMAIN atoms |-> self.masses[atoms[i] + 1]],
                   !.real = @ \o [i \in DOMAIN atoms |-> isReal],
                   !.fragments = Append(@, PyRange(r.frag_start, r.frag_start + frag_size)),
                   !.fragment_charges = Append(@, self.fragment_charges[frag + 1]),
                   !.fragment_multiplicities =
                        Append(@, self.fragment_multiplicities[frag + 1])],
               !.frag_start = NextFragStart(@, frag_size)]

RECURSIVE FragmentLoop(_, _, _, _, _, _)
FragmentLoop(self, src, sel, i, isReal, r) ==
    IF i > Len(sel) THEN r
    ELSE Bind(FragmentBlock(self, src, sel[i], isReal, r),
              LAMBDA n : FragmentLoop(self, src, sel, i + 1, isReal, n))

\* "ret.charge = sum(ret.fragment_charges)" after the real loop
FragmentCharge(fragment_charges) == SumSeq(fragment_charges)

\* "ret.multiplicity = sum(x - 1 for x in ret.fragment_multiplicities)"
FragmentMultiplicity(fragment_multiplicities) ==
    SumSeq([i \in DOMAIN fragment_multiplicities |-> fragment_multiplicities[i] - 1])

\* get_fragment before the orientation of the result: [err, ent, geom].
\* np.vstack raises on an empty list of blocks.
GetFragmentBuild(self, src, real_arg, ghost_arg) ==
    LET real == AsList(real_arg)
        ghost == AsList(ghost_arg)
        r0 == [ent |-> BlankMolecule, blocks |-> <<>>, frag_start |-> 0, err |-> FALSE]
        r1 == FragmentLoop(self, src, real, 1, TRUE, r0)
        r2 == [r1 EXCEPT !.ent = [@ EXCEPT
                 !.charge = FragmentCharge(r1.ent.fragment_charges),
                 !.multiplicity = FragmentMultiplicity(r1.ent.fragment_multiplicities)]]
        r3 == FragmentLoop(self, src, ghost, 1, FALSE, r2)
    IN IF Overlap(real, ghost) \/ r3.err \/ r3.blocks = <<>>
       THEN [err |-> TRUE, ent |-> BlankMolecule, geom |-> NoArray]
       ELSE [err |-> FALSE, ent |-> r3.ent,
             geom |-> Norm([den |-> src.den, rows |-> r3.blocks])]

-----------------------------------------------------------------------------
(* The constructor and the heap of arrays                                  *)

\* (mutation) an array of equal content is shared instead of copied
BindShared(h, geom) ==
    IF \E i \in DOMAIN h : h[i] = geom
    THEN [heap |-> h, id |-> CHOOSE i \in DOMAIN h : h[i] = geom]
    ELSE [heap |-> Append(h, geom), id |-> Len(h) + 1]

\* np.array(...) * const, np.array(data), np.vstack(geom_blocks) over blocks
\* taken by index list: the entity is bound to a new array
BindArray(h, geom) == [heap |-> Append(h, geom), id |-> Len(h) + 1]

\* Molecule.__init__ after the dtype dispatch: bind the parsed geometry to a
\* new array, then "if kwargs.pop('orient', True): self.orient_molecule()".
\* parsed = [err, ent, geom]; the result is a set of [err, ent, heap], one
\* element per outcome of eigh.  A raise leaves no entity.
Construct(parsed, orient, h) ==
    IF parsed.err
    THEN { [err |-> TRUE, ent |-> BlankMolecule, heap |-> h] }
    ELSE LET b == BindArray(h, parsed.geom)
             h1 == b.heap
             e == [parsed.ent EXCEPT !.geometry = b.id]
         IN IF orient
            THEN { IF o.err THEN [err |-> TRUE, ent |-> BlankMolecule, heap |-> o.heap]
                   ELSE o : o \in OrientMolecule(e, h1) }
            ELSE { [err |-> FALSE, ent |-> e, heap |-> h1] }

\* Arrays no entity refers to are dropped and the rest renumbered: the
\* source's array first, then the result's (if it is another array).
Collect(m, r, h) ==
    LET mg == m.geometry
        rg == r.geometry
        keepM == IF mg = 0 THEN <<>> ELSE <<h[mg]>>
        keepR == IF rg = 0 \/ rg = mg THEN <<>> ELSE <<h[rg]>>
    IN [mol |-> [m EXCEPT !.geometry = IF mg = 0 THEN 0 ELSE 1],
        ret |-> [r EXCEPT !.geometry =
                    IF rg = 0 THEN 0 ELSE IF rg = mg THEN 1 ELSE Len(keepM) + 1],
        heap |-> keepM \o keepR]

-----------------------------------------------------------------------------
(* The calls a client makes                                                *)

\* the record of the last call: its operation, arguments and whether it raised
Call(op, raised, orient, real, ghost, frags, ncols) ==
    [op |-> op, raised |-> raised, orient |-> orient, real |-> real,
     ghost |-> ghost, frags |-> frags, ncols |-> ncols]

\* A rigid motion of the written coordinates: quarter turns about the first
\* or the third axis, then a translation by shift
QuarterTurn(axis, v) ==
    IF axis = 1 THEN <<v[1], -1 * v[3], v[2]>> ELSE <<-1 * v[2], v[1], v[3]>>

RECURSIVE Turn(_, _, _)
Turn(axis, turns, v) ==
    IF turns = 0 THEN v ELSE Turn(axis, turns - 1, QuarterTurn(axis, v))

Moves ==
    { [axis |-> a, turns |-> t, shift |-> <<t - 1, 0, 2 * (t - 1)>>] :
        a \in {1, 3}, t \in 1..2 }

\* the text of the same structure after the motion
Moved(lines, mv) ==
    [i \in DOMAIN lines |->
        IF lines[i].kind = "atom"
        THEN [lines[i] EXCEPT !.xyz =
                 LET w == Turn(mv.axis, mv.turns, @)
                 IN [k \in 1..3 |-> w[k] + mv.shift[k]]]
        ELSE lines[i]]

\* the texts a motion is applied to: those a call is made on, and the squares
IsSquare(lines) == \E a \in AtomKinds : lines = Square(a)

NoCall == Call("none", FALSE, TRUE, ArgNone, ArgNone, <<>>, 0)

RealArgs ==
    {ArgInt(0), ArgInt(1), ArgList(<<>>), ArgList(<<0, 1>>), ArgList(<<1, 0>>)}

GhostArgs ==
    {ArgNone, ArgInt(0), ArgInt(1)}

\* How the numeric table is passed: its width (4, or a malformed 3), whether
\* orientation is left on, and whether the last boundary is left implicit
NumpyArgs ==
    { [ncols |-> 4, orient |-> o, implicit |-> i] : o, i \in BOOLEAN }
    \cup { [ncols |-> 3, orient |-> TRUE, implicit |-> FALSE] }

\* The numeric table that holds the atoms of a text: one row (Z, x, y, z)
\* per atom line, in order
RECURSIVE TableRows(_)
TableRows(lines) ==
    IF lines = <<>> THEN <<>>
    ELSE IF Head(lines).kind = "atom"
         THEN << <<el2z[Upper(Head(lines).tok)]>> \o Head(lines).xyz >>
              \o TableRows(Tail(lines))
         ELSE TableRows(Tail(lines))

\* the fragment boundaries of an entity, the last one included
Boundaries(ent) ==
    [i \in DOMAIN ent.fragments |-> Last(ent.fragments[i]) + 1]

\* The texts drawn: up to MaxLines lines with the atoms along one axis, a
\* line that makes the parser raise in the last place only (what follows a
\* raise is never read); and the squares of four equal atoms.  With the
\* atoms along one axis both orders of equal eigenvalues give the same
\* arrays, so one order is drawn for them; for the squares both are.
Init ==
    /\ \/ \E n \in 0..MaxLines : \E body \in [1..(n - 1) -> OkLines] :
            \E last \in LineKinds : \E ax \in Axes :
               text = Place(IF n = 0 THEN <<>> ELSE Append(body, last), ax)
       \/ \E a \in AtomKinds : text = Square(a)
    /\ lapack \in (IF IsSquare(text) THEN {"stable", "reversed"} ELSE {"stable"})
    /\ pc = "start"
    /\ mol = BlankMolecule
    /\ ret = BlankMolecule
    /\ call = NoCall
    /\ heap = <<>>

\* mol = Molecule(text)
ConstructPsi4 ==
    /\ pc = "start"
    /\ \E o \in Construct(MoleculeFromStringPsi4(text), TRUE, <<>>) :
         LET c == Collect(o.ent, BlankMolecule, o.heap)
         IN /\ mol' = c.mol
            /\ heap' = c.heap
            /\ pc' = IF o.err THEN "failed" ELSE "built"
            /\ call' = Call("psi4", o.err, TRUE, ArgNone, ArgNone, <<>>, 0)
    /\ UNCHANGED <<text, ret, lapack>>

\* ret = Molecule(table, dtype="numpy", frags=..., units=..., orient=...)
\* for the table of the text's atoms, with the last boundary given or not
ConstructNumpy ==
    /\ pc = "built"
    /\ Len(text) <= MaxCallLines
    /\ pc' = "called"
    /\ \E a \in NumpyArgs :
         LET rows == TableRows(text)
             arr == [ncols |-> a.ncols,
                     rows |-> IF a.ncols = 4 THEN rows
                              ELSE [i \in DOMAIN rows |-> SubSeq(rows[i], 1, 3)]]
             b == Boundaries(mol)
             frags == IF a.implicit THEN SubSeq(b, 1, Len(b) - 1) ELSE b
             units == IF Pass1(text).unit_conversion = UnitConversionBohr
                      THEN "bohr" ELSE "angstrom"
         IN \E o \in Construct(MoleculeFromNumpy(arr, frags, units), a.orient, heap) :
              LET c == Collect(mol, o.ent, o.heap)
              IN /\ ret' = c.ret
                 /\ mol' = c.mol
                 /\ heap' = c.heap
                 /\ call' = Call("numpy", o.err, a.orient, ArgNone, ArgNone, frags, a.ncols)
    /\ UNCHANGED <<text, lapack>>

\* ret = Molecule(mol.to_json(), dtype="json", orient=...)
ConstructJson ==
    /\ pc = "built"
    /\ Len(text) <= MaxCallLines
    /\ pc' = "called"
    /\ \E orient \in BOOLEAN :
         \E o \in Construct(MoleculeFromJson(ToJson(mol, heap)), orient, heap) :
              LET c == Collect(mol, o.ent, o.heap)
              IN /\ ret' = c.ret
                 /\ mol' = c.mol
                 /\ heap' = c.heap
                 /\ call' = Call("json", o.err, orient, ArgNone, ArgNone, <<>>, 0)
    /\ UNCHANGED <<text, lapack>>

\* ret = mol.get_fragment(real, ghost, orient)
GetFragment ==
    /\ pc = "built"
    /\ Len(text) <= MaxCallLines
    /\ pc' = "called"
    /\ \E real \in RealArgs, ghost \in GhostArgs, orient \in BOOLEAN :
         LET built == GetFragmentBuild(mol, GeometryOf(mol, heap), real, ghost)
         IN \E o \in Construct(built, orient, heap) :
              LET c == Collect(mol, o.ent, o.heap)
              IN /\ ret' = c.ret
                 /\ mol' = c.mol
                 /\ heap' = c.heap
                 /\ call' = Call("get_fragment", o.err, orient, real, ghost, <<>>, 0)
    /\ UNCHANGED <<text, lapack>>

\* ret = Molecule(text of the same structure, rotated and translated)
ConstructMoved ==
    /\ pc = "built"
    /\ Len(text) <= MaxCallLines \/ IsSquare(text)
    /\ pc' = "called"
    /\ \E mv \in Moves :
         \E o \in Construct(MoleculeFromStringPsi4(Moved(text, mv)), TRUE, heap) :
              LET c == Collect(mol, o.ent, o.heap)
              IN /\ ret' = c.ret
                 /\ mol' = c.mol
                 /\ heap' = c.heap
                 /\ call' = Call("moved", o.err, TRUE, ArgNone, ArgNone,
                                 <<mv.axis, mv.turns>> \o mv.shift, 0)
    /\ UNCHANGED <<text, lapack>>

Next ==
    \/ ConstructPsi4
    \/ ConstructNumpy
    \/ ConstructJson
    \/ GetFragment
    \/ ConstructMoved

Spec == Init /\ [][Next]_vars

\* The rotation of the model is exact on its structures: every array holds
\* atoms on one coordinate axis, so every inertia tensor met is diagonal.
OnOneAxis(g) ==
    \E a \in 1..3 : \A i \in DOMAIN g.rows : \A k \in 1..3 : k # a => g.rows[i][k] = 0

\* ... or the centred square of four equally weighted atoms
OnSquare(g) ==
    /\ Len(g.rows) = 4
    /\ \E a \in 1..3 : \E c \in 1..(2 * UnitConversionAngstrom) :
          \A i \in 1..4 : \A k \in 1..3 :
              Abs(g.rows[i][k]) = IF k = a THEN 0 ELSE c
    /\ \A k \in 1..3 : SumSeq([i \in 1..4 |-> g.rows[i][k]]) = 0
    /\ \A j, k \in 1..3 : j # k =>
          SumSeq([i \in 1..4 |-> g.rows[i][j] * g.rows[i][k]]) = 0

ModelDomain ==
    \A i \in DOMAIN heap : (OnOneAxis(heap[i]) \/ OnSquare(heap[i])) /\ heap[i].den > 0

-----------------------------------------------------------------------------
(* Vocabulary of the properties                                            *)

Built == pc \in {"built", "called"}

Returned(op) == pc = "called" /\ call.op = op /\ ~call.raised

Raised(op) == pc = "called" /\ call.op = op /\ call.raised

\* the atom lines of a text, in order
AtomLines(lines) == SelectSeq(lines, LAMBDA l : l.kind = "atom")

\* a text that says no more than a numeric table can: atoms without ghost
\* marker or mass, separators and unit directives
IsPlain(l) ==
    \/ l.kind \in {"frag", "bohr", "ang"}
    \/ l.kind = "atom" /\ l.gh = "" /\ l.mass = 0

PlainText == \A i \in DOMAIN text : IsPlain(text[i])

HasMassSuffix == \E i \in DOMAIN text : text[i].kind = "atom" /\ text[i].mass # 0

\* the lengths the data model ties together
WellFormed(ent, h) ==
    /\ Len(ent.symbols) = Len(GeometryOf(ent, h).rows)
    /\ Len(ent.symbols) = Len(ent.real)
    /\ Len(ent.fragments) = Len(ent.fragment_charges)
    /\ Len(ent.fragments) = Len(ent.fragment_multiplicities)

-----------------------------------------------------------------------------
(* C1: the entity built from the numeric table of a structure and the      *)
(* entity parsed from the equivalent text compare equal under compare():   *)
(* the numpy constructor returns, and compare(text entity, numpy entity)   *)
(* is true.                                                                *)
C1_NumpyEqualsText ==
    (pc = "called" /\ call.op = "numpy" /\ call.ncols = 4 /\ call.orient /\ PlainText)
        => /\ ~call.raised
           /\ Compare(mol, mol, ret, heap)

(* C2: the entity rebuilt from E.to_json() compares equal to the parsed    *)
(* entity E and has the same to_json record and the same get_hash, with    *)
(* or without mass overrides.                                              *)
C2_JsonRoundTrip ==
    (pc = "called" /\ call.op = "json" /\ call.orient)
        => /\ ~call.raised
           /\ Compare(mol, ret, mol, heap)
           /\ ToJson(ret, heap) = ToJson(mol, heap)
           /\ GetHash(ret, heap) = GetHash(mol, heap)

(* C3: every constructor call either raises and returns no entity, or      *)
(* returns an entity with len(symbols) = len(geometry) = len(real) and     *)
(* len(fragments) = len(fragment_charges) = len(fragment_multiplicities).  *)
C3_AllOrNothing ==
    /\ pc = "failed" => mol = BlankMolecule
    /\ Built => WellFormed(mol, heap)
    /\ \A op \in {"numpy", "json"} :
          /\ Raised(op) => ret = BlankMolecule
          /\ Returned(op) => WellFormed(ret, heap)

(* C4: an atom line with a ghost marker ("@" or "Gh(...)") yields an atom  *)
(* that keeps its symbol and geometry row and has real = false; an atom    *)
(* line without a marker yields real = true.                               *)
C4_GhostFlag ==
    Built =>
        LET atoms == AtomLines(text)
        IN /\ Len(mol.real) = Len(atoms)
           /\ Len(mol.symbols) = Len(atoms)
           /\ \A i \in DOMAIN atoms :
                 /\ mol.symbols[i] = Upper(atoms[i].tok)
                 /\ mol.real[i] = ~GhostAtom(atoms[i])

-----------------------------------------------------------------------------
(* Vocabulary of the get_fragment properties                               *)

RealSel == AsList(call.real)
GhostSel == AsList(call.ghost)

\* the fragment positions two arguments of get_fragment both list
Common(real_arg, ghost_arg) == Range(AsList(real_arg)) \cap Range(AsList(ghost_arg))

\* the selections the composer is specified for: disjoint, positions of
\* fragments of the source, at least one fragment
ValidSelection ==
    /\ Common(call.real, call.ghost) = {}
    /\ \A f \in Range(RealSel) \cup Range(GhostSel) : f < Len(mol.fragments)
    /\ RealSel \o GhostSel # <<>>

\* the source atoms of a list of fragment positions, fragment by fragment
RECURSIVE AtomsOf(_)
AtomsOf(sel) ==
    IF sel = <<>> THEN <<>>
    ELSE mol.fragments[Head(sel) + 1] \o AtomsOf(Tail(sel))

Gather(values, atoms) == [i \in DOMAIN atoms |-> values[atoms[i] + 1]]

\* sum over the listed fragment positions of values[position]
SumOver(sel, values) == SumSeq([i \in DOMAIN sel |-> values[sel[i] + 1]])

AllReal(ent) == \A i \in DOMAIN ent.real : ent.real[i]

(* C5: the entity returned by get_fragment has multiplicity                *)
(* 1 + sum over the real-listed fragments of (fragment_multiplicity - 1),  *)
(* which is at least 1.                                                    *)
C5_FragmentMultiplicity ==
    Returned("get_fragment") =>
        /\ ret.multiplicity =
              1 + SumOver(RealSel, [i \in DOMAIN mol.fragment_multiplicities |->
                                      mol.fragment_multiplicities[i] - 1])
        /\ ret.multiplicity >= 1

(* C6: on any parsed entity, with or without mass overrides, get_fragment  *)
(* with a valid selection succeeds; the result lists the atoms of the      *)
(* real-listed fragments and then of the ghost-listed fragments, in the    *)
(* order given, with real = true on the former and false on the latter,    *)
(* and its symbols, masses and geometry rows are those of the source.      *)
C6_FragmentContent ==
    (pc = "called" /\ call.op = "get_fragment" /\ ValidSelection) =>
        LET ra == AtomsOf(RealSel)
            ga == AtomsOf(GhostSel)
        IN /\ ~call.raised
           /\ ret.symbols = Gather(mol.symbols, ra \o ga)
           /\ mol.custom_masses => ret.masses = Gather(mol.masses, ra \o ga)
           /\ ret.real = [i \in DOMAIN ra |-> TRUE] \o [i \in DOMAIN ga |-> FALSE]
           /\ ~call.orient =>
                 GeometryOf(ret, heap) =
                    Norm([den |-> GeometryOf(mol, heap).den,
                          rows |-> Gather(GeometryOf(mol, heap).rows, ra \o ga)])

(* C7: an entity from the parser or from get_fragment whose atoms are all  *)
(* real has charge = sum of fragment_charges, and the entity returned by   *)
(* get_fragment has charge = sum of the source's fragment_charges over the *)
(* real-listed fragments.                                                  *)
C7_ChargeIsSum ==
    /\ (Built /\ AllReal(mol)) => mol.charge = SumSeq(mol.fragment_charges)
    /\ Returned("get_fragment") =>
          /\ AllReal(ret) => ret.charge = SumSeq(ret.fragment_charges)
          /\ ret.charge = SumOver(RealSel, mol.fragment_charges)

(* C8: get_fragment with a fragment position in both selections raises,    *)
(* returns no entity and leaves the source entity and its geometry as they *)
(* were.                                                                   *)
C8_OverlapRaises ==
    [][ ( /\ pc = "built"
          /\ call'.op = "get_fragment"
          /\ Common(call'.real, call'.ghost) # {} )
        => ( /\ call'.raised
             /\ ret' = BlankMolecule
             /\ mol' = mol
             /\ GeometryOf(mol', heap') = GeometryOf(mol, heap) ) ]_vars

\* an overlapping call on a source whose fragments can be extracted
C8_Witness ==
    /\ Raised("get_fragment")
    /\ Common(call.real, call.ghost) # {}
    /\ mol.custom_masses
    /\ \A f \in Range(RealSel) \cup Range(GhostSel) : f < Len(mol.fragments)

-----------------------------------------------------------------------------
(* Vocabulary of the charge/multiplicity properties                        *)

\* the fragment block (0-based) line i of the text lies in
BlockOf(i) == Cardinality({j \in 1..(i - 1) : text[j].kind = "frag"})

\* the positions of the charge/multiplicity lines, and those of block b
CgmpAt == {i \in DOMAIN text : text[i].kind = "cgmp"}
CgmpIn(b) == {i \in CgmpAt : BlockOf(i) = b}

First(S) == CHOOSE i \in S : \A j \in S : i <= j
Latest(S) == CHOOSE i \in S : \A j \in S : j <= i

(* C9: fragment_charges and fragment_multiplicities have one entry per     *)
(* fragment; entry i is the pair declared in fragment i's block, or        *)
(* charge 0 and multiplicity 1 when the block declares none.               *)
C9_PairPerFragment ==
    Built =>
        /\ Len(mol.fragment_charges) = Len(mol.fragments)
        /\ Len(mol.fragment_multiplicities) = Len(mol.fragments)
        /\ \A b \in DOMAIN mol.fragments :
              IF CgmpIn(b - 1) = {}
              THEN mol.fragment_charges[b] = 0 /\ mol.fragment_multiplicities[b] = 1
              ELSE \E i \in CgmpIn(b - 1) :
                      /\ mol.fragment_charges[b] = text[i].c
                      /\ mol.fragment_multiplicities[b] = text[i].m

-----------------------------------------------------------------------------
(* Vocabulary of the unit-directive properties                             *)

UnitsAt == {i \in DOMAIN text : text[i].kind \in {"bohr", "ang"}}

AtomsAt == {i \in DOMAIN text : text[i].kind = "atom"}

\* the unit directives that precede every atom line
LeadingUnitsAt == {i \in UnitsAt : \A j \in AtomsAt : i < j}

\* the geometries an entity parsed from the text has when its coordinates,
\* as written, are scaled by factor and the entity is then oriented
OrientedAtScale(factor) ==
    LET parsed == MoleculeFromStringPsi4(text)
        written == [i \in DOMAIN AtomLines(text) |-> AtomLines(text)[i].xyz]
        scaled == [parsed EXCEPT !.geom = ScaleGeometry(written, factor)]
    IN { o.heap[o.ent.geometry] : o \in Construct(scaled, TRUE, <<>>) }

\* an array with a coordinate away from zero (the scale shows in it)
Extended(g) == \E i \in DOMAIN g.rows : \E k \in 1..3 : g.rows[i][k] # 0

(* C11, as claimed: the first unit directive before any atom line alone    *)
(* determines the scale factor of the geometry (angstrom input when there  *)
(* is none); later directives and directives after an atom line have no    *)
(* effect.                                                                 *)
C11_FirstLeadingDirective ==
    pc = "built" =>
        GeometryOf(mol, heap) \in
            OrientedAtScale(IF LeadingUnitsAt # {}
                               /\ text[First(LeadingUnitsAt)].kind = "bohr"
                            THEN UnitConversionBohr
                            ELSE UnitConversionAngstrom)

(* C11, amended: the coordinates are taken as bohr exactly when a bohr     *)
(* directive appears anywhere in the text, before or after atom lines and  *)
(* before or after an angstrom directive; otherwise they are converted     *)
(* from angstrom.  An angstrom directive has no effect.                    *)
C11_AnyBohrDirective ==
    pc = "built" =>
        GeometryOf(mol, heap) \in
            OrientedAtScale(IF \E i \in UnitsAt : text[i].kind = "bohr"
                            THEN UnitConversionBohr
                            ELSE UnitConversionAngstrom)

\* an angstrom directive leads, a bohr directive follows an atom line, and
\* the geometry shows the scale
C11_Witness ==
    /\ Built
    /\ LeadingUnitsAt # {}
    /\ text[First(LeadingUnitsAt)].kind = "ang"
    /\ \E i \in UnitsAt : text[i].kind = "bohr" /\ \E j \in AtomsAt : j < i
    /\ Extended(GeometryOf(mol, heap))

(* C12: an entity reached from a text by get_fragment or by a               *)
(* serialize/rebuild step serializes masses, and is oriented with its      *)
(* masses attribute as weights, exactly when some atom line of the text    *)
(* carried a mass suffix.                                                  *)
C12_CustomMassesSurvive ==
    /\ Built =>
          /\ mol.custom_masses <=> HasMassSuffix
          /\ ToJson(mol, heap).masses # <<>> <=> HasMassSuffix
    /\ \A op \in {"get_fragment", "json"} :
          Returned(op) =>
              /\ ret.custom_masses <=> HasMassSuffix
              /\ ToJson(ret, heap).masses # <<>> <=> HasMassSuffix

-----------------------------------------------------------------------------
(* Vocabulary of the orientation properties                                *)

\* a dimer whose second fragment is the first one translated: the same
\* symbols, masses, charge and multiplicity, rows that differ by one vector
IdenticalDimer ==
    /\ Len(mol.fragments) = 2
    /\ Len(mol.fragment_charges) = 2 /\ Len(mol.fragment_multiplicities) = 2
    /\ mol.fragment_charges[1] = mol.fragment_charges[2]
    /\ mol.fragment_multiplicities[1] = mol.fragment_multiplicities[2]
    /\ LET f0 == mol.fragments[1]
           f1 == mol.fragments[2]
           rows == GeometryOf(mol, heap).rows
       IN /\ Len(f0) = Len(f1)
          /\ Gather(mol.symbols, f0) = Gather(mol.symbols, f1)
          /\ mol.custom_masses => Gather(mol.masses, f0) = Gather(mol.masses, f1)
          /\ \A i \in DOMAIN f0 : \A k \in 1..3 :
                rows[f1[i] + 1][k] - rows[f0[i] + 1][k]
                    = rows[f1[1] + 1][k] - rows[f0[1] + 1][k]

(* C13: the entity parsed from a structure and the entity parsed from the  *)
(* same structure rotated and translated have the same get_hash; and for   *)
(* a dimer of two identical fragments get_fragment(0) and get_fragment(1)  *)
(* have the same get_hash.                                                 *)
C13_HashInvariant ==
    /\ (pc = "called" /\ call.op = "moved") =>
          /\ ~call.raised
          /\ GetHash(ret, heap) = GetHash(mol, heap)
    /\ ( /\ Returned("get_fragment")
         /\ call.real = ArgInt(0) /\ call.ghost = ArgNone /\ call.orient
         /\ IdenticalDimer ) =>
          \A o \in Construct(GetFragmentBuild(mol, GeometryOf(mol, heap),
                                              ArgInt(1), ArgNone), TRUE, heap) :
              /\ ~o.err
              /\ GetHash(o.ent, o.heap) = GetHash(ret, heap)

\* the same, on the structures whose atoms lie along one axis
C13_OnOneAxis == IsSquare(text) \/ C13_HashInvariant

-----------------------------------------------------------------------------
(* C14: an entity returned by get_fragment has as many real flags and      *)
(* geometry rows as symbols; its fragments are consecutive index ranges,   *)
(* in the order the fragments were listed, each of the size of the source  *)
(* fragment it was taken from, and together they are 0..M-1; and it has    *)
(* one charge and one multiplicity per fragment.                           *)
C14_FragmentInvariants ==
    Returned("get_fragment") =>
        LET M == Len(ret.symbols)
            sel == RealSel \o GhostSel
            size == [i \in DOMAIN sel |-> Len(mol.fragments[sel[i] + 1])]
            start == [i \in DOMAIN sel |-> SumSeq(SubSeq(size, 1, i - 1))]
        IN /\ Len(ret.real) = M
           /\ Len(GeometryOf(ret, heap).rows) = M
           /\ Len(ret.fragments) = Len(sel)
           /\ Len(ret.fragment_charges) = Len(sel)
           /\ Len(ret.fragment_multiplicities) = Len(sel)
           /\ \A i \in DOMAIN sel :
                 ret.fragments[i] = PyRange(start[i], start[i] + size[i])
           /\ SumSeq(size) = M

\* a result made of two fragments, one real and one ghost
C14_Witness ==
    /\ Returned("get_fragment")
    /\ Len(RealSel) = 1 /\ Len(GhostSel) = 1
    /\ Len(ret.fragments) = 2
    /\ Len(ret.symbols) >= 2

-----------------------------------------------------------------------------
(* C15: get_fragment, with or without orientation of its result, leaves    *)
(* every attribute of the source entity and the source's geometry array    *)
(* as they were; the result holds an array of its own.  (The source a      *)
(* call starts from is therefore the constructed one, whatever calls came  *)
(* before.)                                                                *)
C15_SourceUnchanged ==
    [][ (pc = "built" /\ call'.op = "get_fragment") =>
            /\ mol' = mol
            /\ GeometryOf(mol', heap') = GeometryOf(mol, heap)
            /\ ~call'.raised => ret'.geometry # mol'.geometry ]_vars

\* a result that orientation moved: it is weighted otherwise than its source
C15_Witness ==
    /\ Returned("get_fragment")
    /\ call.orient
    /\ Len(ret.symbols) = Len(mol.symbols)
    /\ NpMass(ret) # NpMass(mol)
    /\ Extended(GeometryOf(ret, heap))
    /\ GeometryOf(ret, heap) # GeometryOf(mol, heap)

-----------------------------------------------------------------------------
(* The sign-fixing loop of orient_molecule on its own: the array np.dot    *)
(* leaves is drawn, the loop is applied to it.  heap[1] is the array       *)
(* before the loop and heap[2] the array after it.                         *)

\* atoms of a drawn array
MaxAtoms == 2

\* Resolution of a drawn array: an entry of 1 is 1/(200000 * 529) bohr, below the
\* tolerance of 10^-8, and an entry of 2 is above it
FineDen == 200000

Entries == {-2, -1, 0, 2}

InitPhase ==
    /\ \E n \in 1..MaxAtoms : \E rows \in [1..n -> [1..3 -> Entries]] :
          heap = << [den |-> FineDen, rows |-> rows] >>
    /\ pc = "rotated"
    /\ text = <<>>
    /\ mol = BlankMolecule
    /\ ret = BlankMolecule
    /\ call = NoCall
    /\ lapack = "stable"

FixPhasesStep ==
    /\ pc = "rotated"
    /\ pc' = "fixed"
    /\ heap' = Append(heap, FixPhases(heap[1]))
    /\ UNCHANGED <<text, mol, ret, call, lapack>>

NextPhase == FixPhasesStep

SpecPhase == InitPhase /\ [][NextPhase]_vars

\* the entry n / (den * 529) bohr exceeds the tolerance 10^-8
Exceeds(n, den) == Abs(n) > (den * Bohr2AngstromsMilli) \div (10 ^ GEOMETRY_NOISE)

Column(g, x) == [i \in DOMAIN g.rows |-> g.rows[i][x]]

====
